---- MODULE Spec2Model ----
(***************************************************************************)
(* Failure support of libcore (src/libcore/failure.rs).                    *)
(*                                                                         *)
(* Text is a sequence of byte values (ASCII codes).  A thread is either    *)
(* outside the module ("Idle") or at one position of a failure call:       *)
(*   "Formatting"  in fail_ / fail_bounds_check, before format_args!       *)
(*   "Dispatching" in begin_unwind: before the extern call while hookLog   *)
(*                 of the thread is empty, inside the hook afterwards      *)
(*   "Halted"      the hook took control for good (unwinding)              *)
(*   "Returned"    the hook returned and control is back after             *)
(*                 format_args!, in front of intrinsics::abort()           *)
(*   "Aborted"     intrinsics::abort() was executed                        *)
(*   "Undefined"   the hook returned from a function typed `-> !` and the  *)
(*                 execution continued at an unspecified place             *)
(***************************************************************************)
EXTENDS Integers, Sequences, FiniteSets, TLC

VARIABLES test, stage0, pc, entry, args, locals, fmt, hookLog, abortCalls, halted

vars == <<test, stage0, pc, entry, args, locals, fmt, hookLog, abortCalls, halted>>

(* ------------------------------ bounds --------------------------------- *)

NThreads == 2

MaxLen == 2

MaxFileLen == 2

MaxLine == 2

(* ------------------------------ inputs --------------------------------- *)

\* 'a', '{', '}'
Chars == {97, 123, 125}

\* 'm'
FileChars == {109}

SeqsUpTo(S, n) == UNION {[1..k -> S] : k \in 0..n}

Texts == SeqsUpTo(Chars, MaxLen)

FileTexts == SeqsUpTo(FileChars, MaxFileLen)

Lines == 1..MaxLine

IdxVals == {0, 3, 5, 12}

\* what may lie in static memory behind the terminator of a C string
Tails == {<<>>, <<97, 0>>}

CStrings(S) == {s \o <<0>> \o tl : s \in S, tl \in Tails}

Threads == 1..NThreads

\* the small input sets of the concurrent specification
ConcExprs == {<<97>>, <<123, 125>>}

ConcFiles == {<<109>>}

ConcIdx == {<<5, 3>>}

ConcLines == {1, 2}

ConcCStrings(S) == {s \o <<0>> : s \in S}

(* --------------------- external capabilities --------------------------- *)

\* str::raw::c_str_to_static_slice: the bytes in front of the first zero byte
RECURSIVE c_str_to_static_slice(_)
c_str_to_static_slice(p) ==
    IF p = <<>> \/ Head(p) = 0 THEN <<>>
    ELSE <<Head(p)>> \o c_str_to_static_slice(Tail(p))

\* fmt::Show for uint: decimal digits, most significant first
RECURSIVE DisplayUint(_)
DisplayUint(n) ==
    IF n < 10 THEN <<48 + n>>
    ELSE DisplayUint(n \div 10) \o <<48 + (n % 10)>>

\* format_args!: the template with the k-th "{}" replaced by the rendering of
\* the k-th argument; every other byte of the template is copied
RECURSIVE Render(_, _, _, _)
Render(tpl, i, as, k) ==
    IF i > Len(tpl) THEN <<>>
    ELSE IF tpl[i] = 123 /\ i < Len(tpl) /\ tpl[i + 1] = 125
         THEN (IF k <= Len(as) THEN as[k] ELSE <<>>) \o Render(tpl, i + 2, as, k + 1)
         ELSE <<tpl[i]>> \o Render(tpl, i + 1, as, k)

FormatArgs(tpl, as) == Render(tpl, 1, as, 1)

(* ------------------------ build configuration -------------------------- *)

Shapes == {"current", "stage0"}

LangItems == {"fail_", "fail_bounds_check"}

\* the #[cfg(...)] attribute of each definition of a lang item
EntryActive_NoStageSplit(name, shape) == ~test

EntryActive(name, shape) ==
    IF shape = "current" THEN ~test /\ ~stage0
    ELSE ~test /\ stage0

\* the #[cfg(...)] attribute of each extern block of begin_unwind
ExternActive(strategy) ==
    IF strategy = "link_name" THEN stage0 ELSE ~stage0

HookSymbol == IF ExternActive("link_name") THEN "rust_begin_unwind" ELSE "lang:begin_unwind"

\* the code-generation attributes in front of each definition
Attrs(name, shape) ==
    IF name = "fail_" THEN {"cold", "inline(never)"} ELSE {"cold"}

(* ----------------------------- the calls ------------------------------- *)

NoArgs == [expr |-> <<>>, file |-> <<>>, line |-> 0, index |-> 0, len |-> 0]

Init0(T) ==
    /\ test \in BOOLEAN
    /\ stage0 \in BOOLEAN
    /\ pc = [t \in T |-> "Idle"]
    /\ entry = [t \in T |-> "none"]
    /\ args = [t \in T |-> NoArgs]
    /\ locals = [t \in T |-> NoArgs]
    /\ fmt = [t \in T |-> <<>>]
    /\ hookLog = [t \in T |-> <<>>]
    /\ abortCalls = [t \in T |-> 0]
    /\ halted = FALSE

Enter(t, name, a, l) ==
    /\ ~halted
    /\ pc[t] = "Idle"
    /\ pc' = [pc EXCEPT ![t] = "Formatting"]
    /\ entry' = [entry EXCEPT ![t] = name]
    /\ args' = [args EXCEPT ![t] = a]
    /\ locals' = [locals EXCEPT ![t] = l]
    /\ UNCHANGED <<test, stage0, fmt, hookLog, abortCalls, halted>>

fail_(t, expr, file, line) ==
    /\ EntryActive("fail_", "current")
    /\ LET a == [NoArgs EXCEPT !.expr = expr, !.file = file, !.line = line]
       IN  Enter(t, "fail_", a, a)

Stage0FailLocals_FileFromExpr(expr, file, line) ==
    [NoArgs EXCEPT !.expr = c_str_to_static_slice(expr),
                   !.file = c_str_to_static_slice(expr),
                   !.line = line]

Stage0FailLocals(expr, file, line) ==
    [NoArgs EXCEPT !.expr = c_str_to_static_slice(expr),
                   !.file = c_str_to_static_slice(file),
                   !.line = line]

fail_stage0(t, expr, file, line) ==
    /\ EntryActive("fail_", "stage0")
    /\ Enter(t, "fail_",
             [NoArgs EXCEPT !.expr = expr, !.file = file, !.line = line],
             Stage0FailLocals(expr, file, line))

fail_bounds_check(t, file, line, index, len) ==
    /\ EntryActive("fail_bounds_check", "current")
    /\ LET a == [NoArgs EXCEPT !.file = file, !.line = line,
                               !.index = index, !.len = len]
       IN  Enter(t, "fail_bounds_check", a, a)

fail_bounds_check_stage0(t, file, line, index, len) ==
    /\ EntryActive("fail_bounds_check", "stage0")
    /\ LET a == [NoArgs EXCEPT !.file = file, !.line = line,
                               !.index = index, !.len = len]
       IN  Enter(t, "fail_bounds_check", a,
                 [a EXCEPT !.file = c_str_to_static_slice(file)])

\* the message fail_ hands to format_args!
FailArguments_ExprAsTemplate(l) == FormatArgs(l.expr, <<>>)

FailArguments(l) == FormatArgs(<<123, 125>>, <<l.expr>>)

BoundsTemplate ==
    <<105, 110, 100, 101, 120, 32, 111, 117, 116, 32, 111, 102, 32, 98, 111,
      117, 110, 100, 115, 58, 32, 116, 104, 101, 32, 108, 101, 110, 32, 105,
      115, 32, 123, 125, 32, 98, 117, 116, 32, 116, 104, 101, 32, 105, 110,
      100, 101, 120, 32, 105, 115, 32, 123, 125>>

\* the message fail_bounds_check hands to format_args!
BoundsArguments_Swapped(l) ==
    FormatArgs(BoundsTemplate, <<DisplayUint(l.index), DisplayUint(l.len)>>)

BoundsArguments(l) ==
    FormatArgs(BoundsTemplate, <<DisplayUint(l.len), DisplayUint(l.index)>>)

\* format_args! builds the message and runs the closure, which calls begin_unwind
format_args(t) ==
    /\ ~halted
    /\ pc[t] = "Formatting"
    /\ fmt' = [fmt EXCEPT ![t] = IF entry[t] = "fail_" THEN FailArguments(locals[t])
                                 ELSE BoundsArguments(locals[t])]
    /\ pc' = [pc EXCEPT ![t] = "Dispatching"]
    /\ UNCHANGED <<test, stage0, entry, args, locals, hookLog, abortCalls, halted>>

\* a call of the public function begin_unwind from outside this module
call_begin_unwind(t, m, file, line) ==
    /\ ~halted
    /\ pc[t] = "Idle"
    /\ pc' = [pc EXCEPT ![t] = "Dispatching"]
    /\ entry' = [entry EXCEPT ![t] = "begin_unwind"]
    /\ args' = [args EXCEPT ![t] = [NoArgs EXCEPT !.expr = m, !.file = file, !.line = line]]
    /\ locals' = [locals EXCEPT ![t] = [NoArgs EXCEPT !.file = file, !.line = line]]
    /\ fmt' = [fmt EXCEPT ![t] = m]
    /\ UNCHANGED <<test, stage0, hookLog, abortCalls, halted>>

\* what begin_unwind passes on to the extern function
HookArguments_SharedSlot(t) ==
    LET first == CHOOSE u \in DOMAIN pc : \A v \in DOMAIN pc : u <= v
    IN  [msg |-> fmt[first], file |-> locals[first].file,
         line |-> locals[first].line, symbol |-> HookSymbol]

HookArguments(t) ==
    [msg |-> fmt[t], file |-> locals[t].file,
     line |-> locals[t].line, symbol |-> HookSymbol]

\* the body of begin_unwind: the call of the extern function
begin_unwind(t) ==
    /\ ~halted
    /\ pc[t] = "Dispatching"
    /\ hookLog[t] = <<>>
    /\ hookLog' = [hookLog EXCEPT ![t] = Append(@, HookArguments(t))]
    /\ UNCHANGED <<test, stage0, pc, entry, args, locals, fmt, abortCalls, halted>>

\* the hook keeps its contract: it never returns
HookDiverges(t) ==
    /\ ~halted
    /\ pc[t] = "Dispatching"
    /\ hookLog[t] # <<>>
    /\ pc' = [pc EXCEPT ![t] = "Halted"]
    /\ UNCHANGED <<test, stage0, entry, args, locals, fmt, hookLog, abortCalls, halted>>

\* where the execution may continue when the extern function, declared
\* `-> !`, returns: behind format_args! (only a lang item has such a place)
\* or anywhere
AfterHookReturn_AbortEverywhere(name) == {"Returned"}

AfterHookReturn(name) ==
    IF name \in LangItems THEN {"Returned", "Undefined"} ELSE {"Undefined"}

HookReturns(t) ==
    /\ ~halted
    /\ pc[t] = "Dispatching"
    /\ hookLog[t] # <<>>
    /\ \E p \in AfterHookReturn(entry[t]) : pc' = [pc EXCEPT ![t] = p]
    /\ UNCHANGED <<test, stage0, entry, args, locals, fmt, hookLog, abortCalls, halted>>

\* intrinsics::abort(): the processor halts, and the process with it
AbortGuard_Early(t) == pc[t] \in {"Formatting", "Returned"}

AbortGuard(t) == pc[t] = "Returned"

abort(t) ==
    /\ ~halted
    /\ AbortGuard(t)
    /\ pc' = [pc EXCEPT ![t] = "Aborted"]
    /\ abortCalls' = [abortCalls EXCEPT ![t] = @ + 1]
    /\ halted' = TRUE
    /\ UNCHANGED <<test, stage0, entry, args, locals, fmt, hookLog>>

(* --------------------------- specifications ---------------------------- *)

Step(t) ==
    \/ format_args(t)
    \/ begin_unwind(t)
    \/ HookDiverges(t)
    \/ HookReturns(t)
    \/ abort(t)

\* one thread, all inputs
Init == Init0({1})

Next ==
    \/ \E e \in Texts, f \in FileTexts, l \in Lines : fail_(1, e, f, l)
    \/ \E e \in CStrings(Texts), f \in CStrings(FileTexts), l \in Lines :
           fail_stage0(1, e, f, l)
    \/ \E f \in FileTexts, l \in Lines, i \in IdxVals, n \in IdxVals :
           fail_bounds_check(1, f, l, i, n)
    \/ \E f \in CStrings(FileTexts), l \in Lines, i \in IdxVals, n \in IdxVals :
           fail_bounds_check_stage0(1, f, l, i, n)
    \/ \E m \in Texts, f \in FileTexts, l \in Lines : call_begin_unwind(1, m, f, l)
    \/ Step(1)

Spec == Init /\ [][Next]_vars

\* several threads, few inputs
InitConc == Init0(Threads)

NextConc ==
    \E t \in Threads :
        \/ \E e \in ConcExprs, f \in ConcFiles, l \in ConcLines : fail_(t, e, f, l)
        \/ \E e \in ConcCStrings(ConcExprs), f \in ConcCStrings(ConcFiles), l \in ConcLines :
               fail_stage0(t, e, f, l)
        \/ \E f \in ConcFiles, l \in ConcLines, x \in ConcIdx :
               fail_bounds_check(t, f, l, x[1], x[2])
        \/ \E f \in ConcCStrings(ConcFiles), l \in ConcLines, x \in ConcIdx :
               fail_bounds_check_stage0(t, f, l, x[1], x[2])
        \/ \E m \in ConcExprs, f \in ConcFiles, l \in ConcLines : call_begin_unwind(t, m, f, l)
        \/ Step(t)

SpecConc == InitConc /\ [][NextConc]_vars

(* ------------------------------ claims --------------------------------- *)

HookCalls(t) == Len(hookLog[t])

PastHook(t) == pc[t] \in {"Halted", "Returned", "Aborted", "Undefined"}

\* the text in front of the first zero byte of raw memory
FirstZero(raw) == CHOOSE i \in 1..Len(raw) : raw[i] = 0 /\ \A j \in 1..(i - 1) : raw[j] # 0

TextOf(raw) == SubSeq(raw, 1, FirstZero(raw) - 1)

\* C1: a call of fail_ makes no hook invocation before it dispatches and
\* exactly one from then on; the invocation carries the message text itself,
\* placeholders in the text left as they are, and the caller's file and line
\* (in the stage0 shape: the texts in front of the terminators).
C1_FailDispatchesOnce ==
    \A t \in DOMAIN pc :
        entry[t] = "fail_" =>
            /\ HookCalls(t) <= 1
            /\ PastHook(t) => HookCalls(t) = 1
            /\ pc[t] = "Formatting" => HookCalls(t) = 0
            /\ HookCalls(t) = 1 =>
                   /\ hookLog[t][1].msg = (IF stage0 THEN TextOf(args[t].expr) ELSE args[t].expr)
                   /\ hookLog[t][1].file = (IF stage0 THEN TextOf(args[t].file) ELSE args[t].file)
                   /\ hookLog[t][1].line = args[t].line

C1_Witness ==
    \E t \in DOMAIN pc :
        /\ entry[t] = "fail_"
        /\ ~stage0
        /\ args[t].expr = <<123, 125>>
        /\ PastHook(t)
        /\ HookCalls(t) = 1

BoundsPrefix ==
    <<105, 110, 100, 101, 120, 32, 111, 117, 116, 32, 111, 102, 32, 98, 111,
      117, 110, 100, 115, 58, 32, 116, 104, 101, 32, 108, 101, 110, 32, 105,
      115, 32>>

BoundsMiddle ==
    <<32, 98, 117, 116, 32, 116, 104, 101, 32, 105, 110, 100, 101, 120, 32,
      105, 115, 32>>

\* "index out of bounds: the len is 3 but the index is 5"
BoundsScenarioText ==
    <<105, 110, 100, 101, 120, 32, 111, 117, 116, 32, 111, 102, 32, 98, 111,
      117, 110, 100, 115, 58, 32, 116, 104, 101, 32, 108, 101, 110, 32, 105,
      115, 32, 51, 32, 98, 117, 116, 32, 116, 104, 101, 32, 105, 110, 100,
      101, 120, 32, 105, 115, 32, 53>>

\* the decimal numeral of n has no leading zero and the value n
RECURSIVE NumeralValue(_)
NumeralValue(d) ==
    IF d = <<>> THEN 0 ELSE 10 * NumeralValue(SubSeq(d, 1, Len(d) - 1)) + (d[Len(d)] - 48)

IsNumeralOf(d, n) ==
    /\ Len(d) >= 1
    /\ \A i \in 1..Len(d) : d[i] \in 48..57
    /\ Len(d) > 1 => d[1] # 48
    /\ NumeralValue(d) = n

\* C2: a call of fail_bounds_check with index >= len makes exactly one hook
\* invocation; its message is "index out of bounds: the len is L but the index
\* is I" with L the decimal numeral of len and I that of index, and its
\* location is the caller's file and line.
C2_BoundsMessage ==
    \A t \in DOMAIN pc :
        (entry[t] = "fail_bounds_check" /\ args[t].index >= args[t].len) =>
            /\ HookCalls(t) <= 1
            /\ PastHook(t) => HookCalls(t) = 1
            /\ HookCalls(t) = 1 =>
                   LET m == hookLog[t][1].msg
                       k == Len(m) - Len(BoundsPrefix) - Len(BoundsMiddle)
                   IN  /\ \E a \in 1..(k - 1) :
                              /\ m = BoundsPrefix \o SubSeq(m, Len(BoundsPrefix) + 1, Len(BoundsPrefix) + a)
                                       \o BoundsMiddle \o SubSeq(m, Len(m) - (k - a) + 1, Len(m))
                              /\ IsNumeralOf(SubSeq(m, Len(BoundsPrefix) + 1, Len(BoundsPrefix) + a),
                                             args[t].len)
                              /\ IsNumeralOf(SubSeq(m, Len(m) - (k - a) + 1, Len(m)), args[t].index)
                       /\ (args[t].index = 5 /\ args[t].len = 3) => m = BoundsScenarioText
                       /\ hookLog[t][1].file = (IF stage0 THEN TextOf(args[t].file) ELSE args[t].file)
                       /\ hookLog[t][1].line = args[t].line

C2_Witness ==
    \E t \in DOMAIN pc :
        /\ entry[t] = "fail_bounds_check"
        /\ args[t].index = 12
        /\ args[t].len = 5
        /\ PastHook(t)
        /\ HookCalls(t) = 1

C4Allowed ==
    {<<"Idle", "Formatting">>, <<"Formatting", "Dispatching">>,
     <<"Dispatching", "Halted">>, <<"Dispatching", "Returned">>,
     <<"Returned", "Aborted">>}

C5_LegacyConversion ==
    \A t \in DOMAIN pc :
        (stage0 /\ entry[t] \in LangItems /\ HookCalls(t) >= 1) =>
            LET d == hookLog[t][1]
                raw == args[t].file
                n == Len(d.file)
            IN  /\ n < Len(raw)
                /\ raw[n + 1] = 0
                /\ \A i \in 1..n : d.file[i] = raw[i] /\ raw[i] # 0
                /\ d.line = args[t].line
                /\ d.msg = (IF entry[t] = "fail_"
                            THEN FailArguments([NoArgs EXCEPT !.expr = TextOf(args[t].expr)])
                            ELSE BoundsArguments(args[t]))

C5_Witness ==
    \E t \in DOMAIN pc :
        /\ stage0
        /\ entry[t] = "fail_"
        /\ args[t].file = <<109, 0, 97, 0>>
        /\ args[t].expr = <<97, 0>>
        /\ HookCalls(t) = 1
        /\ hookLog[t][1].file = <<109>>

\* C6: in every build configuration at most one definition of fail_ and at
\* most one of fail_bounds_check is compiled in, and exactly one of the two
\* extern declarations of the hook.
C6_OneShapePerBuild ==
    /\ \A name \in LangItems : Cardinality({s \in Shapes : EntryActive(name, s)}) <= 1
    /\ Cardinality({g \in {"link_name", "lang_item"} : ExternActive(g)}) = 1

C6_Witness ==
    \E t \in DOMAIN pc :
        /\ ~test
        /\ stage0
        /\ entry[t] = "fail_bounds_check"
        /\ HookCalls(t) = 1
        /\ hookLog[t][1].symbol = "rust_begin_unwind"

\* C7: every hook invocation comes from a call of fail_ or fail_bounds_check.
C7_OnlyLangItemsReachHook ==
    \A t \in DOMAIN pc : HookCalls(t) >= 1 => entry[t] \in LangItems

\* C7 (amended): every hook invocation comes from a call of fail_, of
\* fail_bounds_check or of the public begin_unwind, and a call that entered
\* through begin_unwind never formats and never gets to intrinsics::abort().
C7_ThreeEntryPoints ==
    \A t \in DOMAIN pc :
        /\ HookCalls(t) >= 1 => entry[t] \in LangItems \cup {"begin_unwind"}
        /\ entry[t] = "begin_unwind" =>
               /\ pc[t] \notin {"Formatting", "Returned", "Aborted"}
               /\ abortCalls[t] = 0

C7_Witness ==
    \E t \in DOMAIN pc :
        /\ entry[t] = "begin_unwind"
        /\ HookCalls(t) = 1
        /\ pc[t] = "Undefined"

\* C8: every compiled-in definition of fail_ and of fail_bounds_check is
\* marked cold and never-inlined.
C8_ColdAndNeverInlined ==
    \A name \in LangItems, s \in Shapes :
        EntryActive(name, s) => {"cold", "inline(never)"} \subseteq Attrs(name, s)

\* C9: intrinsics::abort() has run only in a call whose hook was invoked and
\* returned, never in a call that has not got past the hook or whose hook
\* keeps control; the hook is invoked only with the message that was
\* formatted before.
C9_Order ==
    \A t \in DOMAIN pc :
        /\ abortCalls[t] > 0 => pc[t] = "Aborted" /\ HookCalls(t) = 1
        /\ pc[t] = "Aborted" => abortCalls[t] = 1
        /\ pc[t] \in {"Idle", "Formatting", "Dispatching", "Halted"} => abortCalls[t] = 0
        /\ pc[t] = "Returned" => HookCalls(t) = 1
        /\ HookCalls(t) >= 1 =>
               /\ pc[t] \notin {"Idle", "Formatting"}
               /\ hookLog[t][1].msg = fmt[t]
               /\ entry[t] = "fail_" => fmt[t] = locals[t].expr

C9_Witness ==
    \E t \in DOMAIN pc :
        /\ entry[t] \in LangItems
        /\ pc[t] = "Aborted"
        /\ abortCalls[t] = 1

\* what thread t's own call delivers to the hook
OwnDelivery(t) ==
    /\ HookCalls(t) <= 1
    /\ HookCalls(t) = 1 =>
           /\ hookLog[t][1].msg = fmt[t]
           /\ hookLog[t][1].file = locals[t].file
           /\ hookLog[t][1].line = locals[t].line
           /\ entry[t] = "fail_" => hookLog[t][1].msg = locals[t].expr

\* the next step of thread t's call can be taken
CanProceed(t) ==
    /\ pc[t] = "Formatting" => ENABLED format_args(t)
    /\ (pc[t] = "Dispatching" /\ HookCalls(t) = 0) => ENABLED begin_unwind(t)

\* C10: under every interleaving each thread's hook invocation carries that
\* thread's own message and location, and a thread on its way to the hook
\* can always take its next step, whatever the other threads' calls did.
C10_Independent ==
    \A t \in DOMAIN pc : OwnDelivery(t) /\ CanProceed(t)

\* the part of the state that belongs to thread t's call
Frame(t) == <<pc[t], entry[t], args[t], locals[t], fmt[t], hookLog[t], abortCalls[t]>>

\* a step is a step of one call and leaves the frames of all other calls alone
OneCallSteps == \E t \in DOMAIN pc : \A u \in DOMAIN pc \ {t} : Frame(u)' = Frame(u)

\* C10 (amended): each thread's hook invocation carries that thread's own
\* message and location, every step touches the frame of one call only, and
\* a thread on its way to the hook can take its next step as long as
\* intrinsics::abort() has not halted the process.
C10_IndependentUntilAbort ==
    /\ [](\A t \in DOMAIN pc : OwnDelivery(t) /\ (~halted => CanProceed(t)))
    /\ [][OneCallSteps]_vars

C10_Witness ==
    \E t, u \in DOMAIN pc :
        /\ t # u
        /\ HookCalls(t) = 1
        /\ HookCalls(u) = 1
        /\ hookLog[t][1].msg # hookLog[u][1].msg
        /\ hookLog[t][1].line # hookLog[u][1].line

====
